---------------------------- MODULE Spec2Model ----------------------------
(***************************************************************************)
(* Model of imu_allan_variance: the primary Allan-deviation sweep of       *)
(* main.rs (message_range, the parallel period sweep over                  *)
(* calc::averages_non_overlapping / calc::allan_variance, retain and       *)
(* write_to_file) and the secondary entry point calc::VarianceCalculator.  *)
(*                                                                         *)
(* Numbers.  An f64 is modelled as an exact rational <<n, d>> with d > 0   *)
(* in lowest terms; <<0, 0>> is NaN.  A square root that is not rational   *)
(* is kept as the surd <<n, d, "sqrt">>.  Angular rates are carried as     *)
(* rational multiples of pi (the value 1/2 is pi/2 rad/s), so the factor   *)
(* 180/pi of rad_to_deg is exact.  Timestamps, offsets and durations are   *)
(* counted in ticks, TicksPerSec ticks to the second.                      *)
(*                                                                         *)
(* Inputs.  main is run on the bags the ingestion interface allows: every  *)
(* series sorted by timestamp, a configured topic present, absent, or      *)
(* present with no sample.  (create_imu_messages itself creates a topic's  *)
(* entry with its first message, so it never yields the last case; main's  *)
(* is_empty branch is kept as the code has it.)  VarianceCalculator::run   *)
(* is public and no caller of it is in the crate: it is run on every       *)
(* sorted slice, empty included.                                           *)
(***************************************************************************)
EXTENDS Integers, Sequences, FiniteSets, TLC

\* ------------------------------------------------------------------ bounds
\* Longest sample series handed to the program.
MaxLen == 5
\* Number of period indices swept; stands for the 9999 indices of (1..10000).
NumPeriods == 4
\* Resolution of the modelled clock.
TicksPerSec == 2

\* ------------------------------------------------------------------ f64
NaN == <<0, 0>>

Abs(x) == IF x < 0 THEN 0 - x ELSE x

RECURSIVE GCD(_, _)
GCD(a, b) == IF b = 0 THEN a ELSE GCD(b, a % b)

\* n/d in lowest terms with a positive denominator; x/0 is NaN.
Rat(n, d) ==
    IF d = 0 THEN NaN
    ELSE LET s == IF d < 0 THEN 0 - 1 ELSE 1
             g == GCD(Abs(n), Abs(d))
         IN  <<(s * n) \div g, (s * d) \div g>>

FromInt(i) == <<i, 1>>

is_nan(x) == x[2] = 0

RAdd(a, b) == IF is_nan(a) \/ is_nan(b) THEN NaN ELSE Rat(a[1] * b[2] + b[1] * a[2], a[2] * b[2])

RSub(a, b) == IF is_nan(a) \/ is_nan(b) THEN NaN ELSE Rat(a[1] * b[2] - b[1] * a[2], a[2] * b[2])

RMul(a, b) == IF is_nan(a) \/ is_nan(b) THEN NaN ELSE Rat(a[1] * b[1], a[2] * b[2])

RDiv(a, b) == IF is_nan(a) \/ is_nan(b) THEN NaN ELSE Rat(a[1] * b[2], a[2] * b[1])

RLess(a, b) == ~is_nan(a) /\ ~is_nan(b) /\ a[1] * b[2] < b[1] * a[2]

\* `x as usize`: truncation toward zero, negatives and NaN saturate to 0.
AsUsize(a) == IF is_nan(a) \/ a[1] < 0 THEN 0 ELSE a[1] \div a[2]

IsSquare(n) == \E r \in 0..n : r * r = n

ISqrt(n) == CHOOSE r \in 0..n : r * r = n

\* f64::sqrt: NaN for NaN and for negatives, exact when the root is rational.
Sqrt(a) ==
    IF is_nan(a) \/ a[1] < 0 THEN NaN
    ELSE IF IsSquare(a[1]) /\ IsSquare(a[2]) THEN <<ISqrt(a[1]), ISqrt(a[2])>>
    ELSE <<a[1], a[2], "sqrt">>

\* ------------------------------------------------------------------ Vec6
Zero == FromInt(0)

Vec6Default == [k \in 1..6 |-> Zero]

VAdd(a, b) == [k \in 1..6 |-> RAdd(a[k], b[k])]

VSub(a, b) == [k \in 1..6 |-> RSub(a[k], b[k])]

VDiv(a, x) == [k \in 1..6 |-> RDiv(a[k], x)]

VSquare(a) == [k \in 1..6 |-> RMul(a[k], a[k])]

VSqrt(a) == [k \in 1..6 |-> Sqrt(a[k])]

\* ------------------------------------------------------------------ Option / Result
None == <<>>

Some(x) == <<x>>

Ok(v) == [tag |-> "Ok", val |-> v]

Err(e) == [tag |-> "Err", err |-> e]

Panic(why) == [tag |-> "Panic", why |-> why]

\* ------------------------------------------------------------------ calc.rs, pure functions
\* pi in units of pi.
PI == FromInt(1)

rad_to_deg(rad) == RDiv(RMul(rad, FromInt(180)), PI)

\* s.partition_point(|x| x.ts <= bound) on a slice sorted by ts: the index of
\* the first element for which the predicate is false.
PartitionPoint(s, bound) ==
    CHOOSE k \in 0..Len(s) :
        /\ \A i \in 1..k : s[i].ts <= bound
        /\ (k = Len(s) \/ ~(s[k + 1].ts <= bound))

\* &messages[start..end]
Slice(s, start, end) ==
    IF start > end \/ end > Len(s) THEN Panic("slice index out of range")
    ELSE Ok(SubSeq(s, start + 1, end))

\* The Vec6 built from one message inside the averaging loops.
SampleVec(m) ==
    << m.linear_acceleration[1], m.linear_acceleration[2], m.linear_acceleration[3],
       rad_to_deg(m.angular_velocity[1]), rad_to_deg(m.angular_velocity[2]),
       rad_to_deg(m.angular_velocity[3]) >>

RECURSIVE VSum(_, _, _)
\* Sum of SampleVec over messages[from .. to] (1-based, inclusive), left to right.
VSum(messages, from, to) ==
    IF from > to THEN Vec6Default
    ELSE VAdd(VSum(messages, from, to - 1), SampleVec(messages[to]))

averages_non_overlapping(messages, cluster_size) ==
    IF cluster_size = 0 THEN Err("ClusterTooSmall")
    ELSE LET n_clusters == Len(messages) \div cluster_size
         IN  IF n_clusters < 2 THEN Err("InsufficientClusters")
             ELSE Ok([i \in 1..n_clusters |->
                        VDiv(VSum(messages, (i - 1) * cluster_size + 1, i * cluster_size),
                             FromInt(cluster_size))])

RECURSIVE SumSquares(_, _)
\* sum_squares after the loop has visited averages[1..i].
SumSquares(averages, i) ==
    IF i <= 1 THEN Vec6Default
    ELSE VAdd(SumSquares(averages, i - 1), VSquare(VSub(averages[i], averages[i - 1])))

allan_variance(averages) ==
    LET sum_squares == SumSquares(averages, Len(averages))
    IN  [i \in 1..6 |->
            RDiv(RMul(Rat(1, 2), sum_squares[i]), RSub(FromInt(Len(averages)), FromInt(1)))]


\* ------------------------------------------------------------------ main.rs, pure parts
\* Mutant of message_range: the end bound is measured from the first
\* timestamp, not from the start bound.
message_range_end_from_first(messages, offset_s, duration_s) ==
    IF messages = <<>> THEN Panic("unwrap on None")
    ELSE IF offset_s < 0 \/ (duration_s # None /\ duration_s[1] < 0)
    THEN Panic("from_secs_f64")
    ELSE LET first == messages[1].ts
             start == first + offset_s
             end   == IF duration_s = None THEN messages[Len(messages)].ts
                      ELSE first + duration_s[1]
             start_idx  == PartitionPoint(messages, start)
             end_idx    == PartitionPoint(messages, end)
         IN  Slice(messages, start_idx, end_idx)

\* Duration::from_secs_f64 panics on a negative argument.
message_range(messages, offset_s, duration_s) ==
    IF messages = <<>> THEN Panic("unwrap on None")
    ELSE IF offset_s < 0 \/ (duration_s # None /\ duration_s[1] < 0)
    THEN Panic("from_secs_f64")
    ELSE LET first == messages[1].ts
             start == first + offset_s
             end   == IF duration_s = None THEN messages[Len(messages)].ts
                      ELSE start + duration_s[1]
             start_idx  == PartitionPoint(messages, start)
             end_idx    == PartitionPoint(messages, end)
         IN  Slice(messages, start_idx, end_idx)

\* Mutant of is_empty: the emptiness check is lost.
never_empty(s) == FALSE

\* slice::is_empty, main.rs:118 and calc.rs:111.
is_empty(s) == Len(s) = 0

\* tau = p as f64 * 0.1
Tau(p) == RMul(FromInt(p), Rat(1, 10))

\* Mutant of ClusterSize: the cast goes to a one-bit integer and wraps.
ClusterSize_wrap(tau, measure_rate) == AsUsize(RMul(tau, FromInt(measure_rate))) % 2

\* cluster_size = (tau * measure_rate) as usize
ClusterSize(tau, measure_rate) == AsUsize(RMul(tau, FromInt(measure_rate)))

\* Mutant of period_task: the pair carries the averaging time of the cluster,
\* cluster_size / measure_rate, in place of p * 0.1.
period_task_cluster_tau(p, imu_selection_, measure_rate) ==
    LET cluster_size == ClusterSize(Tau(p), measure_rate)
        r == averages_non_overlapping(imu_selection_, cluster_size)
    IN  IF r.tag = "Ok"
        THEN <<Rat(cluster_size, measure_rate), VSqrt(allan_variance(r.val))>>
        ELSE <<NaN, Vec6Default>>

\* The closure mapped over (1..10000): the (tau, adev) pair of period p, or the
\* marked pair (NaN, default) when the Clusterer failed.
period_task(p, imu_selection_, measure_rate) ==
    LET tau == Tau(p)
        r   == averages_non_overlapping(imu_selection_, ClusterSize(tau, measure_rate))
    IN  IF r.tag = "Ok" THEN <<tau, VSqrt(allan_variance(r.val))>>
        ELSE <<NaN, Vec6Default>>

\* Mutant of collect: results are pushed in the order the tasks finish.
collect_in_completion_order(results, order) == [i \in 1..Len(order) |-> results[order[i]]]

\* collect() of an indexed parallel iterator: position i holds the result of
\* item i, whatever the order in which the tasks finished.
collect(results, order) == [i \in 1..Len(order) |-> results[i]]

\* Mutant of retain: the marked pairs are kept.
retain_all(v) == v

\* deviances.retain(|(tau, _)| !tau.is_nan())
retain(v) == SelectSeq(v, LAMBDA e : ~is_nan(e[1]))

\* ------------------------------------------------------------------ inputs
Rates == {5, 10, 20}

Offsets == {0, 1, 2 * MaxLen}

Durations == {None, Some(2)}

TsKinds == {"even", "ties"}

ValKinds == {"const", "ramp"}

TsAt(kind, i) == IF kind = "even" THEN 3 + (i - 1) ELSE 3 + (i \div 2)

SampleAt(tsKind, valKind, i) ==
    IF valKind = "const"
    THEN [ts |-> TsAt(tsKind, i),
          linear_acceleration |-> <<FromInt(1), Zero, Zero>>,
          angular_velocity |-> <<Rat(1, 2), Zero, Zero>>]
    ELSE [ts |-> TsAt(tsKind, i),
          linear_acceleration |-> <<FromInt(i), FromInt(i * i), FromInt(0 - i)>>,
          angular_velocity |-> <<Rat(i, 180), Rat(1, 2), Rat(i * i, 180)>>]

Series(n, tsKind, valKind) == [i \in 1..n |-> SampleAt(tsKind, valKind, i)]

SeriesSet == {Series(n, tk, vk) : n \in 0..MaxLen, tk \in TsKinds, vk \in ValKinds}

TopicConfig(topic, rate, dur, off) ==
    [imu_topic |-> topic, measure_rate |-> rate, sequence_duration |-> dur,
     sequence_offset |-> off]

Periods == 1..NumPeriods

Pending == [tag |-> "Pending"]

Done(v) == [tag |-> "Done", val |-> v]

NoSlots == [p \in Periods |-> Pending]

EmptyMap == [x \in {} |-> <<>>]

\* m with key k bound to v (HashMap / BTreeMap insert, file create).
Insert(m, k, v) == [x \in DOMAIN m \cup {k} |-> IF x = k THEN v ELSE m[x]]

\* ------------------------------------------------------------------ state
VARIABLES
    entry,           \* which entry point this run exercises: "main" or "run"
    messages,        \* main: HashMap topic -> Vec<Imu> from create_imu_messages
    config,          \* main: the Vec<TopicConfig> of the configuration
    pc,              \* main: position in main(), "idle" when entry = "run"
    idx,             \* main: index into config of the topic being processed
    imu_selection,   \* main: the slice returned by message_range
    slots,           \* main: per period, the pair its task produced
    clusters,        \* main: per period, what averages_non_overlapping returned
    finished,        \* main: period indices in the order their tasks finished
    deviances,       \* main: the vector collected and retained
    outputs,         \* main: topic -> curve handed to write_to_file
    missing_topics,  \* main: topics not in the bag
    error_log,       \* main: what error!() reported, <<kind, topic>>
    calc_self,       \* run: the VarianceCalculator
    calc_messages,   \* run: the messages argument
    min_period,      \* run: argument
    max_period,      \* run: argument
    calc_pc,         \* run: position in run(), "idle" when entry = "main"
    calc_range,      \* run: the slice returned by range()
    calc_avg,        \* run: per period, what average_calc returned
    averages_map,    \* run: the BTreeMap built by calc_averages
    calc_dev,        \* run: per period, what deviation_calc returned
    calc_result,     \* run: the value run() returned, or its panic
    avar             \* avar_calc.rs: arguments, position, averages and result of avar_calc

mainVars == <<messages, config, pc, idx, imu_selection, slots, clusters, finished,
              deviances, outputs, missing_topics, error_log>>

calcVars == <<calc_self, calc_messages, min_period, max_period, calc_pc, calc_range,
              calc_avg, averages_map, calc_dev, calc_result>>

vars == <<entry, mainVars, calcVars, avar>>

ImuTopic == "/imu"

AuxTopic == "/aux"

AuxConfig == TopicConfig(AuxTopic, 10, None, 0)

\* The bag and the configuration: the topic under analysis alone and, for the
\* default window (offset 0, whole recording), also beside a second configured
\* topic that is absent from the bag, empty, or analysed too.
Scenarios(series, tc) ==
    { [bag |-> Insert(EmptyMap, ImuTopic, series), cfg |-> <<tc>>] }
    \cup
    IF tc.sequence_duration = None /\ tc.sequence_offset = 0
    THEN { [bag |-> Insert(EmptyMap, ImuTopic, series), cfg |-> <<AuxConfig, tc>>],
           [bag |-> Insert(Insert(EmptyMap, ImuTopic, series), AuxTopic, <<>>),
            cfg |-> <<AuxConfig, tc>>],
           [bag |-> Insert(Insert(EmptyMap, ImuTopic, series), AuxTopic,
                           Series(3, "even", "ramp")),
            cfg |-> <<tc, AuxConfig>>] }
    ELSE {}

AvarIdle ==
    [pc |-> "idle", messages |-> <<>>, sampling_period |-> Zero, cluster_size |-> 0,
     averages |-> <<>>, result |-> Pending]

MainIdle ==
    /\ messages = EmptyMap /\ config = <<>> /\ pc = "idle" /\ idx = 1
    /\ imu_selection = <<>> /\ slots = NoSlots /\ clusters = NoSlots
    /\ finished = <<>> /\ deviances = <<>> /\ outputs = EmptyMap
    /\ missing_topics = <<>> /\ error_log = <<>>

CalcIdle ==
    /\ calc_self = TopicConfig(ImuTopic, 10, None, 0) /\ calc_messages = <<>>
    /\ min_period = 1 /\ max_period = 1 /\ calc_pc = "idle" /\ calc_range = <<>>
    /\ calc_avg = NoSlots /\ averages_map = EmptyMap /\ calc_dev = NoSlots
    /\ calc_result = Pending

InitMain ==
    /\ entry = "main"
    /\ \E series \in SeriesSet, rate \in Rates, dur \in Durations, off \in Offsets :
         \E sc \in Scenarios(series, TopicConfig(ImuTopic, rate, dur, off)) :
            /\ messages = sc.bag
            /\ config = sc.cfg
    /\ pc = "loop" /\ idx = 1
    /\ imu_selection = <<>> /\ slots = NoSlots /\ clusters = NoSlots
    /\ finished = <<>> /\ deviances = <<>> /\ outputs = EmptyMap
    /\ missing_topics = <<>> /\ error_log = <<>>
    /\ CalcIdle
    /\ avar = AvarIdle

\* ------------------------------------------------------------------ main()
Topic == config[idx].imu_topic

\* Mutant of TopicMissing: the missing topic ends the loop (a return or a
\* break in place of falling through to the next topic).
TopicMissing_abort ==
    /\ pc = "loop" /\ idx <= Len(config)
    /\ Topic \notin DOMAIN messages
    /\ error_log' = Append(error_log, <<"not in available topics", Topic>>)
    /\ missing_topics' = Append(missing_topics, Topic)
    /\ pc' = "done"
    /\ UNCHANGED <<entry, avar, messages, config, idx, imu_selection, slots, clusters,
                   finished, deviances, outputs, calcVars>>

\* for topic_config in config: the topic is not in the bag.
TopicMissing ==
    /\ pc = "loop" /\ idx <= Len(config)
    /\ Topic \notin DOMAIN messages
    /\ error_log' = Append(error_log, <<"not in available topics", Topic>>)
    /\ missing_topics' = Append(missing_topics, Topic)
    /\ idx' = idx + 1
    /\ UNCHANGED <<entry, avar, messages, config, pc, imu_selection, slots, clusters, finished,
                   deviances, outputs, calcVars>>

\* imu_data.is_empty(): error!() and continue.
TopicEmpty ==
    /\ pc = "loop" /\ idx <= Len(config)
    /\ Topic \in DOMAIN messages
    /\ is_empty(messages[Topic])
    /\ error_log' = Append(error_log, <<"No messages for topic", Topic>>)
    /\ idx' = idx + 1
    /\ UNCHANGED <<entry, avar, messages, config, pc, imu_selection, slots, clusters, finished,
                   deviances, outputs, missing_topics, calcVars>>

\* message_range, then the sweep is spawned.
TopicSelect ==
    /\ pc = "loop" /\ idx <= Len(config)
    /\ Topic \in DOMAIN messages
    /\ ~is_empty(messages[Topic])
    /\ LET r == message_range(messages[Topic], config[idx].sequence_offset,
                              config[idx].sequence_duration)
       IN  IF r.tag = "Ok"
           THEN /\ imu_selection' = r.val
                /\ pc' = "sweep"
           ELSE /\ imu_selection' = <<>>
                /\ pc' = "panicked"
    /\ slots' = NoSlots /\ clusters' = NoSlots /\ finished' = <<>>
    /\ UNCHANGED <<entry, avar, messages, config, idx, deviances, outputs, missing_topics,
                   error_log, calcVars>>

\* One task of the parallel map over the period indices.
PeriodTask(p) ==
    /\ pc = "sweep"
    /\ slots[p] = Pending
    /\ LET tau == Tau(p)
       IN  clusters' = [clusters EXCEPT ![p] =
               Done(averages_non_overlapping(imu_selection,
                        ClusterSize(tau, config[idx].measure_rate)))]
    /\ slots' = [slots EXCEPT ![p] =
                    Done(period_task(p, imu_selection, config[idx].measure_rate))]
    /\ finished' = Append(finished, p)
    /\ UNCHANGED <<entry, avar, messages, config, pc, idx, imu_selection, deviances, outputs,
                   missing_topics, error_log, calcVars>>

\* The join: collect(), then retain().
Assemble ==
    /\ pc = "sweep"
    /\ \A p \in Periods : slots[p] # Pending
    /\ deviances' = retain(collect([p \in Periods |-> slots[p].val], finished))
    /\ pc' = "write"
    /\ UNCHANGED <<entry, avar, messages, config, idx, imu_selection, slots, clusters, finished,
                   outputs, missing_topics, error_log, calcVars>>

\* write_to_file(&args.output_path, &topic_config.imu_topic, &deviances)
WriteToFile ==
    /\ pc = "write"
    /\ outputs' = Insert(outputs, Topic, deviances)
    /\ idx' = idx + 1
    /\ pc' = "loop"
    /\ UNCHANGED <<entry, avar, messages, config, imu_selection, slots, clusters, finished,
                   deviances, missing_topics, error_log, calcVars>>

\* The loop is over: the missing topics are reported and main returns Ok(()).
MainReturn ==
    /\ pc = "loop" /\ idx > Len(config)
    /\ pc' = "done"
    /\ error_log' = IF missing_topics # <<>>
                    THEN Append(error_log, <<"Some topics were skipped", missing_topics>>)
                    ELSE error_log
    /\ UNCHANGED <<entry, avar, messages, config, idx, imu_selection, slots, clusters, finished,
                   deviances, outputs, missing_topics, calcVars>>

NextMain ==
    \/ TopicMissing
    \/ TopicEmpty
    \/ TopicSelect
    \/ \E p \in Periods : PeriodTask(p)
    \/ Assemble
    \/ WriteToFile
    \/ MainReturn

\* ------------------------------------------------------------------ calc.rs, VarianceCalculator
\* range(messages, start, end), calc.rs:20
range(msgs, start, end) ==
    Slice(msgs, PartitionPoint(msgs, start), PartitionPoint(msgs, end))

\* Duration::new(secs as u64, 0), for an f64 given in ticks.
WholeSeconds(ticks) == AsUsize(Rat(ticks, TicksPerSec)) * TicksPerSec

\* Number of items of (0..n).step_by(step), step >= 1.
StepCount(n, step) == IF n <= 0 THEN 0 ELSE (n + step - 1) \div step

\* average_calc: the (period, averages) pair, or the panic of
\* `messages.len() - max_bin_size` (overflow check, or the out-of-bounds index
\* that follows the wrapped subtraction) and of step_by(0).
average_calc(self, msgs, period) ==
    LET period_time  == RMul(FromInt(period), Rat(1, 10))
        max_bin_size == AsUsize(RMul(period_time, FromInt(self.measure_rate)))
    IN  IF max_bin_size > Len(msgs) THEN Panic("attempt to subtract with overflow")
        ELSE IF max_bin_size = 0 THEN Panic("assertion failed: step != 0")
        ELSE Ok(<<period,
                  [k \in 1..StepCount(Len(msgs) - max_bin_size, max_bin_size) |->
                      VDiv(VSum(msgs, (k - 1) * max_bin_size + 1, k * max_bin_size),
                           FromInt(max_bin_size))]>>)

RECURSIVE VarianceLoop(_, _)
\* allan_variance of deviation_calc after the loop has visited averages[1..i]:
\* components 0..5 (exclusive) are updated, and scaled, at every step.
VarianceLoop(averages, i) ==
    IF i <= 1 THEN Vec6Default
    ELSE LET before == VarianceLoop(averages, i - 1)
             diff   == VSub(averages[i], averages[i - 1])
             scale  == RDiv(Rat(1, 2), FromInt(Len(averages) - 1))
         IN  [j \in 1..6 |->
                 IF j <= 5 THEN RMul(RAdd(before[j], RMul(diff[j], diff[j])), scale)
                 ELSE before[j]]

deviation_calc(averages, period) ==
    LET period_time == RMul(FromInt(period), Rat(1, 10))
    IN  <<period_time, VSqrt(VarianceLoop(averages, Len(averages)))>>

\* averages_map[&period]: BTreeMap's Index panics on a missing key.
MapIndex(m, k) == IF k \in DOMAIN m THEN Ok(m[k]) ELSE Panic("key not found")

PeriodRanges == {<<1, NumPeriods + 1>>, <<2, NumPeriods + 1>>, <<1, NumPeriods>>}

InitCalc ==
    /\ entry = "run"
    /\ MainIdle
    /\ avar = AvarIdle
    /\ \E series \in SeriesSet, rate \in Rates, dur \in Durations, off \in Offsets :
          /\ calc_messages = series
          /\ calc_self = TopicConfig(ImuTopic, rate, dur, off)
    /\ \E pr \in PeriodRanges : min_period = pr[1] /\ max_period = pr[2]
    /\ calc_pc = "start" /\ calc_range = <<>>
    /\ calc_avg = NoSlots /\ averages_map = EmptyMap /\ calc_dev = NoSlots
    /\ calc_result = Pending

\* run(): messages.is_empty() returns the error.
RunEmpty ==
    /\ calc_pc = "start"
    /\ is_empty(calc_messages)
    /\ calc_result' = Err("EmptyInput")
    /\ calc_pc' = "done"
    /\ UNCHANGED <<entry, avar, mainVars, calc_self, calc_messages, min_period, max_period,
                   calc_range, calc_avg, averages_map, calc_dev>>

\* The selection of run(): messages.iter().next().unwrap(), the bounds, range().
run_range(self, msgs) ==
    IF Len(msgs) = 0 THEN Panic("unwrap on None")
    ELSE LET first_timestamp  == msgs[1].ts
             offset_timestamp == first_timestamp + WholeSeconds(self.sequence_offset)
             end_timestamp    ==
                 IF self.sequence_duration # None
                 THEN offset_timestamp + WholeSeconds(self.sequence_duration[1])
                 ELSE msgs[Len(msgs)].ts
         IN  range(msgs, offset_timestamp, end_timestamp)

\* run(): past the emptiness check, the range is selected.
RunRange ==
    /\ calc_pc = "start"
    /\ ~is_empty(calc_messages)
    /\ LET r == run_range(calc_self, calc_messages)
       IN  IF r.tag = "Ok"
           THEN /\ calc_range' = r.val
                /\ calc_pc' = "averages"
                /\ calc_result' = calc_result
           ELSE /\ calc_range' = <<>>
                /\ calc_pc' = "done"
                /\ calc_result' = r
    /\ UNCHANGED <<entry, avar, mainVars, calc_self, calc_messages, min_period, max_period,
                   calc_avg, averages_map, calc_dev>>

\* calc_averages: one task of the parallel map over (min_period..max_period).
\* A panicking task unwinds through the join and out of run().
AverageTask(p) ==
    /\ calc_pc = "averages"
    /\ p >= min_period /\ p < max_period
    /\ calc_avg[p] = Pending
    /\ LET r == average_calc(calc_self, calc_range, p)
       IN  /\ calc_avg' = [calc_avg EXCEPT ![p] = r]
           /\ IF r.tag = "Panic"
              THEN calc_pc' = "done" /\ calc_result' = r
              ELSE UNCHANGED <<calc_pc, calc_result>>
    /\ UNCHANGED <<entry, avar, mainVars, calc_self, calc_messages, min_period, max_period,
                   calc_range, averages_map, calc_dev>>

\* calc_averages: the collected pairs are inserted into the BTreeMap.
AveragesJoin ==
    /\ calc_pc = "averages"
    /\ \A p \in Periods : (p >= min_period /\ p < max_period) => calc_avg[p] # Pending
    /\ averages_map' = [p \in {q \in Periods : q >= min_period /\ q < max_period} |->
                            calc_avg[p].val[2]]
    /\ calc_pc' = "deviations"
    /\ UNCHANGED <<entry, avar, mainVars, calc_self, calc_messages, min_period, max_period,
                   calc_range, calc_avg, calc_dev, calc_result>>

\* calc_deviations: one task of the parallel map over (1..10000).
DeviationTask(p) ==
    /\ calc_pc = "deviations"
    /\ calc_dev[p] = Pending
    /\ LET a == MapIndex(averages_map, p)
           r == IF a.tag = "Ok" THEN Ok(deviation_calc(a.val, p)) ELSE a
       IN  /\ calc_dev' = [calc_dev EXCEPT ![p] = r]
           /\ IF r.tag = "Panic"
              THEN calc_pc' = "done" /\ calc_result' = r
              ELSE UNCHANGED <<calc_pc, calc_result>>
    /\ UNCHANGED <<entry, avar, mainVars, calc_self, calc_messages, min_period, max_period,
                   calc_range, calc_avg, averages_map>>

\* calc_deviations: collect(); run() returns Ok(deviations).
DeviationsJoin ==
    /\ calc_pc = "deviations"
    /\ \A p \in Periods : calc_dev[p] # Pending
    /\ calc_result' = Ok([p \in Periods |-> calc_dev[p].val])
    /\ calc_pc' = "done"
    /\ UNCHANGED <<entry, avar, mainVars, calc_self, calc_messages, min_period, max_period,
                   calc_range, calc_avg, averages_map, calc_dev>>

NextCalc ==
    \/ RunEmpty
    \/ RunRange
    \/ \E p \in Periods : AverageTask(p)
    \/ AveragesJoin
    \/ \E p \in Periods : DeviationTask(p)
    \/ DeviationsJoin

\* ------------------------------------------------------------------ avar_calc.rs
\* std::f64::consts::FRAC_PI_2, imported as PI_2: pi / 2 in units of pi.
PI_2 == Rat(1, 2)

\* rad_to_deg of avar_calc.rs:136
avar_rad_to_deg(rad) == RDiv(RMul(rad, FromInt(180)), PI_2)

\* The Vf64 built from one message, avar_calc.rs:177-184.
AvarSampleVec(m) ==
    << m.linear_acceleration[1], m.linear_acceleration[2], m.linear_acceleration[3],
       avar_rad_to_deg(m.angular_velocity[1]), avar_rad_to_deg(m.angular_velocity[2]),
       avar_rad_to_deg(m.angular_velocity[3]) >>

RECURSIVE AvarVSum(_, _, _)
AvarVSum(msgs, from, to) ==
    IF from > to THEN Vec6Default
    ELSE VAdd(AvarVSum(msgs, from, to - 1), AvarSampleVec(msgs[to]))

\* avar_calc, first half: the checks and the cluster averages.
avar_calc_averages(msgs, cluster_size) ==
    IF cluster_size = 0 THEN Err("ClusterTooSmall")
    ELSE LET n_clusters == Len(msgs) \div cluster_size
         IN  IF n_clusters < 2 THEN Err("InsufficientClusters")
             ELSE Ok([i \in 1..n_clusters |->
                        VDiv(AvarVSum(msgs, (i - 1) * cluster_size + 1, i * cluster_size),
                             FromInt(cluster_size))])

\* avar_calc, second half: `for i in 0..5` fills five components of avar.
avar_calc_variance(averages, sampling_period, cluster_size) ==
    LET sum_squares == SumSquares(averages, Len(averages))
        avar_ == [i \in 1..6 |->
                    IF i <= 5
                    THEN RDiv(RMul(Rat(1, 2), sum_squares[i]),
                              RSub(FromInt(Len(averages)), FromInt(1)))
                    ELSE Zero]
    IN  <<RMul(sampling_period, FromInt(cluster_size)), avar_>>

AvarClusterSizes == 0..(NumPeriods - 1)

InitAvar ==
    /\ entry = "avar_calc"
    /\ MainIdle
    /\ CalcIdle
    /\ \E series \in SeriesSet, c \in AvarClusterSizes, rate \in Rates :
          avar = [pc |-> "start", messages |-> series, sampling_period |-> Rat(1, rate),
                  cluster_size |-> c, averages |-> <<>>, result |-> Pending]

\* avar_calc up to the end of the averaging loop, or its early return.
AvarAverages ==
    /\ avar.pc = "start"
    /\ LET r == avar_calc_averages(avar.messages, avar.cluster_size)
       IN  avar' = IF r.tag = "Ok"
                   THEN [avar EXCEPT !.pc = "averaged", !.averages = r.val]
                   ELSE [avar EXCEPT !.pc = "done", !.result = r]
    /\ UNCHANGED <<entry, mainVars, calcVars>>

\* avar_calc from the sum of squares to Ok((tau, avar)).
AvarVariance ==
    /\ avar.pc = "averaged"
    /\ avar' = [avar EXCEPT !.pc = "done",
                   !.result = Ok(avar_calc_variance(avar.averages, avar.sampling_period,
                                                    avar.cluster_size))]
    /\ UNCHANGED <<entry, mainVars, calcVars>>

NextAvar ==
    \/ AvarAverages
    \/ AvarVariance

\* ------------------------------------------------------------------ specification
Init == InitMain \/ InitCalc \/ InitAvar

Next == NextMain \/ NextCalc \/ NextAvar

Spec == Init /\ [][Next]_vars

\* ------------------------------------------------------------------ claims
\* What the specification says of one period, stated on the integers:
\* cluster_size(p) = floor(p * 0.1 * sample_rate).
SpecClusterSize(p, rate) == (p * rate) \div 10

PeriodSucceeds(p, n, rate) ==
    /\ SpecClusterSize(p, rate) >= 1
    /\ n \div SpecClusterSize(p, rate) >= 2

HasEntry(curve, p) == \E i \in 1..Len(curve) : curve[i][1] = Rat(p, 10)

InSweep == pc \in {"sweep", "write"}

Rate == config[idx].measure_rate

\* C1: after the period sweep over a selection of n samples, the curve holds an
\* entry for period p exactly when cluster_size(p) >= 1 and floor(n /
\* cluster_size(p)) >= 2; it holds nothing else, and no entry carries a NaN tau
\* or deviation.
C1_CurveHoldsExactlyTheValidPeriods ==
    pc = "write" =>
        /\ \A p \in Periods :
              HasEntry(deviances, p) <=> PeriodSucceeds(p, Len(imu_selection), Rate)
        /\ Len(deviances) =
              Cardinality({p \in Periods : PeriodSucceeds(p, Len(imu_selection), Rate)})
        /\ \A i \in 1..Len(deviances) :
              /\ ~is_nan(deviances[i][1])
              /\ \A k \in 1..6 : ~is_nan(deviances[i][2][k])

\* A sweep in which one period was kept, one failed on a cluster size of 0 and
\* one failed for want of a second window.
C1_Witness ==
    /\ pc = "write"
    /\ Len(deviances) >= 1
    /\ \E p \in Periods : clusters[p].val.tag = "Err" /\ clusters[p].val.err = "ClusterTooSmall"
    /\ \E p \in Periods :
          clusters[p].val.tag = "Err" /\ clusters[p].val.err = "InsufficientClusters"

StrictlyIncreasingTau(curve) ==
    \A i \in 1..Len(curve) : \A j \in 1..Len(curve) :
        i < j => RLess(curve[i][1], curve[j][1])

FinishedOutOfOrder == \E i \in 1..(Len(finished) - 1) : finished[i] > finished[i + 1]

\* C2: whatever the order in which the period tasks ran, the curve assembled
\* and every curve written is strictly increasing in tau.
C2_CurveStrictlyIncreasingInTau ==
    /\ pc = "write" => StrictlyIncreasingTau(deviances)
    /\ \A t \in DOMAIN outputs : StrictlyIncreasingTau(outputs[t])

\* A curve of at least two entries assembled from tasks that finished out of
\* index order.
C2_Witness ==
    /\ pc = "write"
    /\ Len(deviances) >= 2
    /\ FinishedOutOfOrder

RECURSIVE SequentialSweep(_, _, _)
\* The pairs of periods 1..p computed one after the other, marked pairs dropped.
SequentialSweep(p, selection, rate) ==
    IF p = 0 THEN <<>>
    ELSE LET e == period_task(p, selection, rate)
         IN  IF is_nan(e[1]) THEN SequentialSweep(p - 1, selection, rate)
             ELSE Append(SequentialSweep(p - 1, selection, rate), e)

\* C3: the curve is a function of the selection and the configuration alone:
\* every schedule of the period tasks assembles the curve that the sequential
\* sweep of the same input assembles.
C3_CurveIndependentOfSchedule ==
    pc = "write" => deviances = SequentialSweep(NumPeriods, imu_selection, Rate)

\* A curve of at least two entries assembled from tasks that finished in
\* exactly the reverse of index order.
C3_Witness ==
    /\ pc = "write"
    /\ Len(deviances) >= 2
    /\ finished = [i \in 1..NumPeriods |-> NumPeriods + 1 - i]

\* C4: a failing period neither aborts its siblings nor escapes as a panic or a
\* run-level error, in the primary sweep and in VarianceCalculator::run: the
\* sweep completes and every period that can succeed is in the curve.
C4_PeriodFailuresAreContained ==
    /\ pc # "panicked"
    /\ pc = "write" =>
          \A p \in Periods :
              PeriodSucceeds(p, Len(imu_selection), Rate) => HasEntry(deviances, p)
    /\ calc_result.tag # "Panic"
    /\ calc_result.tag = "Ok" =>
          \A p \in Periods :
              (p >= min_period /\ p < max_period
                 /\ PeriodSucceeds(p, Len(calc_range), calc_self.measure_rate))
              => HasEntry(calc_result.val, p)

\* The samples of series whose timestamp lies in [first + o, first + o + d).
HalfOpenWindow(series, o, d) ==
    SelectSeq(series, LAMBDA m : series[1].ts + o <= m.ts /\ m.ts < series[1].ts + o + d)

\* C5: for a non-empty sorted series, offset o and duration d, the selection is
\* exactly the samples with first_ts + o <= ts < first_ts + o + d; with o = 0
\* the first sample is selected.
C5_SelectionIsHalfOpenWindow ==
    (InSweep /\ config[idx].sequence_duration # None) =>
        imu_selection = HalfOpenWindow(messages[Topic], config[idx].sequence_offset,
                                       config[idx].sequence_duration[1])

Logged(kind, topic) == \E i \in 1..Len(error_log) : error_log[i] = <<kind, topic>>

\* C6: an empty series ends in the error outcome, never in a panic, and no
\* period is computed for it: main reports the topic and moves on without a
\* sweep or an output, and run() returns the error before any task runs.
C6_EmptySeriesIsAnErrorNotAPanic ==
    /\ pc # "panicked"
    /\ InSweep => messages[Topic] # <<>>
    /\ \A i \in 1..Len(config) :
          (i < idx /\ config[i].imu_topic \in DOMAIN messages
             /\ messages[config[i].imu_topic] = <<>>)
          => /\ Logged("No messages for topic", config[i].imu_topic)
             /\ config[i].imu_topic \notin DOMAIN outputs
    /\ (entry = "run" /\ calc_messages = <<>>) =>
          /\ calc_pc \in {"start", "done"}
          /\ calc_pc = "done" => (calc_result.tag = "Err" /\ calc_result.err = "EmptyInput")
          /\ calc_avg = NoSlots /\ calc_dev = NoSlots
          /\ calc_result.tag # "Panic"

\* run() was handed an empty slice and has returned its error.
C6_Witness ==
    /\ entry = "run"
    /\ calc_messages = <<>>
    /\ calc_pc = "done"
    /\ calc_result.tag = "Err"

\* C7: an empty selection is detected before the sweep and fails the source as
\* a whole: no period task runs on it, no curve is assembled or written for
\* it, and run() returns an error for it.
C7_EmptySelectionFailsTheSource ==
    /\ (InSweep /\ imu_selection = <<>>) => (finished = <<>> /\ pc = "sweep")
    /\ (entry = "run" /\ calc_pc \in {"averages", "deviations"}) => calc_range # <<>>
    /\ (entry = "run" /\ calc_pc = "done" /\ calc_messages # <<>> /\ calc_range = <<>>)
          => calc_result.tag = "Err"

\* What the Clusterer owes for n samples and cluster size c.
ClustererOutcome(r, n, c) ==
    /\ r.tag \in {"Ok", "Err"}
    /\ c = 0 => (r.tag = "Err" /\ r.err = "ClusterTooSmall")
    /\ (c >= 1 /\ n \div c < 2) => (r.tag = "Err" /\ r.err = "InsufficientClusters")

\* C8: the Clusterer (averages_non_overlapping, and average_calc of
\* VarianceCalculator) returns ClusterTooSmall when c = 0 and
\* InsufficientClusters when c >= 1 and fewer than two windows fit; for every
\* slice length and c it returns a value, never a panic.
C8_ClustererReturnsErrorsNeverPanics ==
    /\ InSweep =>
          \A p \in Periods :
              clusters[p] # Pending =>
                  ClustererOutcome(clusters[p].val, Len(imu_selection),
                                   SpecClusterSize(p, Rate))
    /\ \A p \in Periods :
          calc_avg[p] # Pending =>
              ClustererOutcome(calc_avg[p], Len(calc_range),
                               SpecClusterSize(p, calc_self.measure_rate))

\* The mean of samples [(i-1)*c, i*c) for i = 1 .. floor(n / c).
ExpectedWindows(s, c) ==
    [i \in 1..(Len(s) \div c) |->
        VDiv(VSum(s, (i - 1) * c + 1, i * c), FromInt(c))]

\* C9: for n samples and c >= 1 with floor(n / c) >= 2 the Clusterer
\* (averages_non_overlapping, and average_calc) yields exactly floor(n / c)
\* averages, window i being the mean of samples [i*c, (i+1)*c), the last full
\* window included and the trailing n mod c samples dropped.
C9_ClustererYieldsEveryFullWindow ==
    /\ InSweep =>
          \A p \in Periods :
              (clusters[p] # Pending /\ PeriodSucceeds(p, Len(imu_selection), Rate)) =>
                  /\ clusters[p].val.tag = "Ok"
                  /\ clusters[p].val.val =
                        ExpectedWindows(imu_selection, SpecClusterSize(p, Rate))
    /\ \A p \in Periods :
          (calc_avg[p] # Pending
             /\ PeriodSucceeds(p, Len(calc_range), calc_self.measure_rate)) =>
              /\ calc_avg[p].tag = "Ok"
              /\ calc_avg[p].val[2] =
                    ExpectedWindows(calc_range, SpecClusterSize(p, calc_self.measure_rate))

RECURSIVE SumSqDiff(_, _, _)
\* Sum over i = 2..m of (avg[i][k] - avg[i-1][k])^2.
SumSqDiff(avg, k, m) ==
    IF m <= 1 THEN Zero
    ELSE RAdd(SumSqDiff(avg, k, m - 1),
              RMul(RSub(avg[m][k], avg[m - 1][k]), RSub(avg[m][k], avg[m - 1][k])))

\* variance[k] = 0.5 * sum_sq[k] / (m - 1), for each of the six components.
SpecVariance(avg) ==
    [k \in 1..6 |-> RDiv(RMul(Rat(1, 2), SumSqDiff(avg, k, Len(avg))), FromInt(Len(avg) - 1))]

\* C10: for m >= 2 averages the VarianceEstimator (allan_variance, and
\* deviation_calc) returns in each of the six components the square root of
\* 0.5 * (sum of squared first differences) / (m - 1), the scaling applied once
\* to the completed sum.
C10_VarianceIsHalfMeanSquaredDifference ==
    /\ InSweep =>
          \A p \in Periods :
              (clusters[p] # Pending /\ clusters[p].val.tag = "Ok") =>
                  slots[p].val[2] = VSqrt(SpecVariance(clusters[p].val.val))
    /\ \A p \in Periods :
          (calc_dev[p] # Pending /\ calc_dev[p].tag = "Ok" /\ Len(averages_map[p]) >= 2) =>
              calc_dev[p].val[2] = VSqrt(SpecVariance(averages_map[p]))

\* The mean of samples [(i-1)*c, i*c) with the angular rates in degrees: a rate
\* of q * pi rad/s is q * 180 deg/s; the accelerations are not scaled.
WindowMeanDeg(s, i, c) ==
    [k \in 1..6 |->
        LET Component(m) == IF k <= 3 THEN m.linear_acceleration[k]
                            ELSE RMul(m.angular_velocity[k - 3], FromInt(180))
            Sum[j \in 0..c] ==
                IF j = 0 THEN Zero ELSE RAdd(Sum[j - 1], Component(s[(i - 1) * c + j]))
        IN  RDiv(Sum[c], FromInt(c))]

AllWindowsInDegrees(windows, s, c) ==
    \A i \in 1..Len(windows) : windows[i] = WindowMeanDeg(s, i, c)

\* C11: in every window average the angular-rate components are the mean
\* angular rate times 180/pi and the accelerations are averaged unscaled, in
\* each implementation: averages_non_overlapping and average_calc of calc.rs
\* and avar_calc of avar_calc.rs.
C11_WindowAveragesInDegrees ==
    /\ InSweep =>
          \A p \in Periods :
              (clusters[p] # Pending /\ clusters[p].val.tag = "Ok") =>
                  AllWindowsInDegrees(clusters[p].val.val, imu_selection,
                                      SpecClusterSize(p, Rate))
    /\ \A p \in Periods :
          (calc_avg[p] # Pending /\ calc_avg[p].tag = "Ok") =>
              AllWindowsInDegrees(calc_avg[p].val[2], calc_range,
                                  SpecClusterSize(p, calc_self.measure_rate))
    /\ AllWindowsInDegrees(avar.averages, avar.messages, avar.cluster_size)

RECURSIVE PrimarySweep(_, _, _, _)
\* The primary sweep over the period indices lo .. hi - 1: the pairs of
\* period_task in index order, marked pairs dropped.
PrimarySweep(lo, hi, selection, rate) ==
    IF hi <= lo THEN <<>>
    ELSE LET e == period_task(hi - 1, selection, rate)
         IN  IF is_nan(e[1]) THEN PrimarySweep(lo, hi - 1, selection, rate)
             ELSE Append(PrimarySweep(lo, hi - 1, selection, rate), e)

\* C12: VarianceCalculator::run(messages, min_period, max_period) returns, for
\* every series and every range, the entries the primary sweep returns for the
\* period indices of [min_period, max_period) on the same series, offset,
\* duration and rate.
C12_RunEqualsPrimarySweep ==
    (entry = "run" /\ calc_pc = "done" /\ calc_messages # <<>>) =>
        /\ calc_result.tag = "Ok"
        /\ calc_result.val =
              PrimarySweep(min_period, max_period,
                           message_range(calc_messages, calc_self.sequence_offset,
                                         calc_self.sequence_duration).val,
                           calc_self.measure_rate)

InSeq(q, x) == \E i \in 1..Len(q) : q[i] = x

SourceAbsent(t) == t \notin DOMAIN messages

SourceEmpty(t) == t \in DOMAIN messages /\ messages[t] = <<>>

\* What main owes the configured source t once the loop has gone past it.
SourceSettled(t) ==
    /\ SourceAbsent(t) => (InSeq(missing_topics, t) /\ Logged("not in available topics", t))
    /\ SourceEmpty(t) => Logged("No messages for topic", t)
    /\ (~SourceAbsent(t) /\ ~SourceEmpty(t)) => t \in DOMAIN outputs

\* C13: a configured source that is empty or absent from the bag is skipped
\* and reported by its identifier, and the run goes on: main never panics on it,
\* returns only after the loop has visited every configured source, and every
\* other source it has gone past has its curve written.
C13_SkippedSourceDoesNotEndTheRun ==
    entry = "main" =>
        /\ pc # "panicked"
        /\ pc = "done" => idx > Len(config)
        /\ \A i \in 1..Len(config) : i < idx => SourceSettled(config[i].imu_topic)

\* main has returned; an absent or empty source came first in the
\* configuration and the source after it has its curve written.
C13_Witness ==
    /\ entry = "main"
    /\ pc = "done"
    /\ \E i \in 1..Len(config) : \E j \in 1..Len(config) :
          /\ i < j
          /\ (SourceAbsent(config[i].imu_topic) \/ SourceEmpty(config[i].imu_topic))
          /\ config[j].imu_topic \in DOMAIN outputs

InsufficientClusters(p) ==
    clusters[p].val.tag = "Err" /\ clusters[p].val.err = "InsufficientClusters"

\* C14: in the curve of the primary sweep the periods present form a
\* contiguous interval: the cluster size is non-decreasing in the period
\* index, every period between two kept periods is kept, and once a period
\* fails with InsufficientClusters every larger period fails with it too.
C14_KeptPeriodsAreContiguous ==
    pc = "write" =>
        /\ \A p \in Periods : \A q \in Periods :
              p < q => ClusterSize(Tau(p), Rate) <= ClusterSize(Tau(q), Rate)
        /\ \A p1 \in Periods : \A p2 \in Periods : \A p3 \in Periods :
              (p1 < p2 /\ p2 < p3 /\ HasEntry(deviances, p1) /\ HasEntry(deviances, p3))
                  => HasEntry(deviances, p2)
        /\ \A p \in Periods : \A q \in Periods :
              (p < q /\ InsufficientClusters(p)) => InsufficientClusters(q)

\* A sweep that kept three consecutive periods and dropped another one.
C14_Witness ==
    /\ pc = "write"
    /\ \E p \in Periods :
          /\ p + 2 \in Periods
          /\ HasEntry(deviances, p) /\ HasEntry(deviances, p + 1) /\ HasEntry(deviances, p + 2)
    /\ \E p \in Periods : ~HasEntry(deviances, p)

\* Number of samples with a timestamp at or before bound.
CountUpTo(s, bound) == Cardinality({i \in 1..Len(s) : s[i].ts <= bound})

IsSubRange(sub, s) ==
    \E a \in 0..Len(s) : \E b \in a..Len(s) : sub = SubSeq(s, a + 1, b)

\* C15: on a non-empty sorted series, with a non-negative offset and a
\* duration that is absent or non-negative, the two indices of range
\* selection satisfy 0 <= start_idx <= end_idx <= len: taking the sub-slice
\* never fails, in main and in run(), and the selection is the contiguous
\* sub-range between the two indices.
C15_RangeIndicesAreOrdered ==
    /\ pc # "panicked"
    /\ InSweep =>
          LET s         == messages[Topic]
              start     == s[1].ts + config[idx].sequence_offset
              end       == IF config[idx].sequence_duration = None THEN s[Len(s)].ts
                           ELSE start + config[idx].sequence_duration[1]
              start_idx == CountUpTo(s, start)
              end_idx   == CountUpTo(s, end)
          IN  /\ 0 <= start_idx /\ start_idx <= end_idx /\ end_idx <= Len(s)
              /\ imu_selection = SubSeq(s, start_idx + 1, end_idx)
    /\ ~(calc_result.tag = "Panic" /\ calc_result.why = "slice index out of range")
    /\ IsSubRange(calc_range, calc_messages)

\* A selection strictly inside the series: 0 < start_idx < end_idx < len.
C15_Witness ==
    /\ pc = "sweep"
    /\ config[idx].sequence_duration # None
    /\ config[idx].sequence_offset > 0
    /\ Len(imu_selection) >= 1
    /\ imu_selection[1] # messages[Topic][1]
    /\ imu_selection[Len(imu_selection)] # messages[Topic][Len(messages[Topic])]

=============================================================================
